---- MODULE Spec2Model ----
(***************************************************************************)
(* Model of the debate-arena server (src/index.js): the join workflow of   *)
(* POST /debates/:id/join against the debates and joinedDebate             *)
(* collections, and the aggregation of GET /leaderboard.                   *)
(*                                                                         *)
(* Every store operation (findOne, updateOne) is one atomic step of the    *)
(* store; the handler's code between two awaits runs with the step that    *)
(* resumes it.  Requests are handled concurrently: the steps of different  *)
(* requests interleave freely.                                             *)
(***************************************************************************)
EXTENDS Integers, Sequences, FiniteSets, Bags, TLC

\* ------------------------------------------------------------------ bounds
\* Number of requests that can be in flight at the same time.
MaxInflight == 2
\* Largest value of the wall clock read by `new Date()` in the join handler.
MaxClock == 1
\* Largest number of documents in the leaderboard collection.
MaxVotes == 3

\* ------------------------------------------------------------ input values
\* Identifier strings a client can put in the path.  "d1" and "D1" are the
\* lower- and upper-case hex spelling of the same ObjectId, "d2" is the hex
\* string of an ObjectId no debate has, "zz" is not a 24 character hex string.
IdStrings == {"d1", "D1", "d2", "zz"}
\* ObjectIds of the stored debates (no handler deletes a debate).
Oids == {"o1"}
\* Participant names of the request body; "" stands for a missing/empty name.
Names == {"", "n1", "n2"}
RealNames == Names \ {""}
\* Sides of the request body; "" stands for a missing side.
Sides == {"Support", "Oppose", "support", ""}

NoResponse == [status |-> 0, step |-> "", id |-> "", name |-> "", side |-> ""]
Quiet == [dirty |-> FALSE, had |-> <<>>]
NoRequest == [filter |-> "none", now |-> 0, startDate |-> {}]
NotSent == [status |-> 0, body |-> <<>>]

VARIABLES
    debateCollection,       \* ObjectId -> [title, support, oppose]
    joinedDebateCollection, \* <<debateId, name>> -> the documents holding that
                            \*   pair, in insertion order
    inflight,               \* the bag of join requests being handled
    clock,                  \* the last value `new Date()` returned
    response,               \* the response sent by the last step, if any
    track,                  \* history, per <<ObjectId, name>> with a join in
                            \*   flight: dirty = two joins of the pair have
                            \*   overlapped; had = the joinedDebate documents of
                            \*   the request's (id, name) when it arrived
    argumentsCollection,    \* documents of the leaderboard collection
    lbRequest,              \* the GET /leaderboard request being handled:
                            \*   [filter, now, startDate]
    lbResponse              \* its response, once sent: [status, body]

lbVars == <<argumentsCollection, lbRequest, lbResponse>>
vars == <<debateCollection, joinedDebateCollection, inflight, clock, response,
          track, argumentsCollection, lbRequest, lbResponse>>

\* ------------------------------------------------------------- pure helpers
\* new ObjectId(id): parses a 24 character hex string, ignoring case; any
\* other string throws.
Throws == "throws"
ObjectId(id) ==
    CASE id = "d1" -> "o1"
      [] id = "D1" -> "o1"
      [] id = "d2" -> "o2"
      [] OTHER -> Throws

\* side.toLowerCase()
ToLowerCaseKeep(s) == s
ToLowerCase(s) ==
    CASE s = "Support" -> "support"
      [] s = "Oppose" -> "oppose"
      [] OTHER -> s

\* !name || !['Support', 'Oppose'].includes(side)
InvalidIgnoringCase(name, side) ==
    name = "" \/ ToLowerCase(side) \notin {"support", "oppose"}
Invalid(name, side) == name = "" \/ side \notin {"Support", "Oppose"}

\* { $pull: { support: name, oppose: name } }
PullSupportOnly(doc, name) == [doc EXCEPT !.support = @ \ {name}]
Pull(doc, name) ==
    [doc EXCEPT !.support = @ \ {name}, !.oppose = @ \ {name}]

\* { $addToSet: { [sideField]: name } }
AddToSet(doc, sideField, name) ==
    IF sideField = "support" THEN [doc EXCEPT !.support = @ \cup {name}]
    ELSE IF sideField = "oppose" THEN [doc EXCEPT !.oppose = @ \cup {name}]
    ELSE doc

\* The documents matching the filter { debateId: id, name }, in natural order.
Matching(coll, id, name) == coll[<<id, name>>]

\* updateOne(filter, { $set: doc }, { upsert: true }): the first matching
\* document is updated; without a match the document is inserted.
UpsertInsert(coll, doc) ==
    [coll EXCEPT ![<<doc.debateId, doc.name>>] = Append(@, doc)]
Upsert(coll, doc) ==
    LET key == <<doc.debateId, doc.name>>
    IN  IF Matching(coll, doc.debateId, doc.name) = <<>>
        THEN [coll EXCEPT ![key] = <<doc>>]
        ELSE [coll EXCEPT ![key][1] = doc]

\* The document upserted at lines 97-113.
JoinedDoc(req) ==
    [debateId |-> req.id, name |-> req.name, side |-> req.side,
     title |-> req.title, joinedAt |-> req.joinedAt]

\* The requests of bag b that join debate oid under the given name.
OfPair(b, oid, name) ==
    {q \in BagToSet(b) : ObjectId(q.id) = oid /\ q.name = name}

ResponseOf(req, status, step) ==
    [status |-> status, step |-> step, id |-> req.id, name |-> req.name,
     side |-> req.side]

\* -------------------------------------------------------------------- Init
JoinInit ==
    /\ debateCollection = [o \in Oids |-> [title |-> "t1", support |-> {}, oppose |-> {}]]
    /\ joinedDebateCollection = [k \in IdStrings \X Names |-> <<>>]
    /\ inflight = EmptyBag
    /\ clock = 0
    /\ response = NoResponse
    /\ track = [k \in {"o1", "o2"} \X RealNames |-> Quiet]

LbIdle ==
    /\ argumentsCollection = <<>>
    /\ lbRequest = NoRequest
    /\ lbResponse = NotSent

Init == JoinInit /\ LbIdle

\* ----------------------------------------------------------------- actions
\* POST /debates/:id/join, the synchronous part up to the first await
\* (lines 71-80): validation, then new ObjectId(id), then findOne is sent.
Receive(limit, id, name, side) ==
    /\ BagCardinality(inflight) < limit
    /\ LET req == [pc |-> "find", id |-> id, name |-> name, side |-> side,
                   title |-> "", joinedAt |-> 0]
       IN  IF Invalid(name, side)
           THEN /\ response' = ResponseOf(req, 400, "validate")
                /\ UNCHANGED <<inflight, track>>
           ELSE IF ObjectId(id) = Throws
           THEN /\ response' = ResponseOf(req, 500, "objectid")
                /\ UNCHANGED <<inflight, track>>
           ELSE /\ inflight' = inflight (+) SetToBag({req})
                /\ response' = NoResponse
                /\ track' =
                     [track EXCEPT ![<<ObjectId(id), name>>] =
                        IF OfPair(inflight, ObjectId(id), name) = {}
                        THEN [dirty |-> FALSE,
                              had |-> Matching(joinedDebateCollection, id, name)]
                        ELSE [dirty |-> TRUE, had |-> <<>>]]
    /\ UNCHANGED <<debateCollection, joinedDebateCollection, clock>>
    /\ UNCHANGED lbVars

\* Request req moves on to req2.
Advance(req, req2) ==
    /\ inflight' = (inflight (-) SetToBag({req})) (+) SetToBag({req2})
    /\ response' = NoResponse
    /\ UNCHANGED track

\* Request req leaves with a response.
Finish(req, status, step) ==
    /\ response' = ResponseOf(req, status, step)
    /\ inflight' = inflight (-) SetToBag({req})
    /\ track' =
         [track EXCEPT ![<<ObjectId(req.id), req.name>>] =
            IF OfPair(inflight', ObjectId(req.id), req.name) = {} THEN Quiet ELSE @]

\* findOne({ _id }) answers (line 80), then line 81 and the $pull is sent.
FindOne(req) ==
    /\ req.pc = "find"
    /\ LET oid == ObjectId(req.id)
       IN  IF oid \in DOMAIN debateCollection
           THEN Advance(req, [req EXCEPT !.pc = "pull",
                                         !.title = debateCollection[oid].title])
           ELSE Finish(req, 404, "find")
    /\ UNCHANGED <<debateCollection, joinedDebateCollection, clock>>
    /\ UNCHANGED lbVars

\* The $pull update is applied (lines 84-87), then the $addToSet is sent.
PullBoth(req) ==
    /\ req.pc = "pull"
    /\ debateCollection' =
          [debateCollection EXCEPT ![ObjectId(req.id)] = Pull(@, req.name)]
    /\ Advance(req, [req EXCEPT !.pc = "add"])
    /\ UNCHANGED <<joinedDebateCollection, clock>>
    /\ UNCHANGED lbVars

\* The $addToSet update is applied (lines 90-94).
AddSide(req) ==
    /\ req.pc = "add"
    /\ debateCollection' =
          [debateCollection EXCEPT
             ![ObjectId(req.id)] = AddToSet(@, ToLowerCase(req.side), req.name)]
    /\ Advance(req, [req EXCEPT !.pc = "stamp"])
    /\ UNCHANGED <<joinedDebateCollection, clock>>
    /\ UNCHANGED lbVars

\* The handler resumes after the $addToSet, reads `new Date()` (line 109)
\* and sends the upsert.  Time does not run backwards.
Stamp(req, t) ==
    /\ req.pc = "stamp"
    /\ clock <= t
    /\ t <= MaxClock
    /\ clock' = t
    /\ Advance(req, [req EXCEPT !.pc = "upsert", !.joinedAt = t])
    /\ UNCHANGED <<debateCollection, joinedDebateCollection>>
    /\ UNCHANGED lbVars

\* The upsert is applied (lines 97-113).
UpsertJoined(req) ==
    /\ req.pc = "upsert"
    /\ joinedDebateCollection' = Upsert(joinedDebateCollection, JoinedDoc(req))
    /\ Advance(req, [req EXCEPT !.pc = "respond"])
    /\ UNCHANGED <<debateCollection, clock>>
    /\ UNCHANGED lbVars

\* The handler resumes after the upsert and answers 200 (line 115).
Respond(req) ==
    /\ req.pc = "respond"
    /\ Finish(req, 200, "respond")
    /\ UNCHANGED <<debateCollection, joinedDebateCollection, clock>>
    /\ UNCHANGED lbVars

\* A store operation rejects: the await throws, the catch answers 500
\* (lines 116-119).  The rejected operation changes nothing in the store.
StoreFailure(req) ==
    /\ req.pc \in {"find", "pull", "add", "upsert"}
    /\ Finish(req, 500, req.pc)
    /\ UNCHANGED <<debateCollection, joinedDebateCollection, clock>>
    /\ UNCHANGED lbVars

\* The steps of the join handler while the store answers: at most `limit`
\* requests in flight, drawn from `requests`; `new Date()` advances by at most
\* `tick` between two reads.
JoinNext(limit, requests, tick) ==
    \/ \E q \in requests : Receive(limit, q[1], q[2], q[3])
    \/ \E req \in BagToSet(inflight) : FindOne(req)
    \/ \E req \in BagToSet(inflight) : PullBoth(req)
    \/ \E req \in BagToSet(inflight) : AddSide(req)
    \/ \E req \in BagToSet(inflight), t \in clock..(clock + tick) : Stamp(req, t)
    \/ \E req \in BagToSet(inflight) : UpsertJoined(req)
    \/ \E req \in BagToSet(inflight) : Respond(req)

Failures == \E req \in BagToSet(inflight) : StoreFailure(req)

\* Concurrent joins of the stored debate by valid requests.
RaceRequests ==
    ({"d1"} \X {"n1"} \X {"Support", "Oppose"})
        \cup {<<"d1", "n2", "Support">>, <<"D1", "n1", "Oppose">>}
Next == JoinNext(MaxInflight, RaceRequests, 0) \/ Failures
Spec == Init /\ [][Next]_vars

\* The same, with a store that never fails.
NextQuiet == JoinNext(MaxInflight, RaceRequests, 0)
SpecQuiet == Init /\ [][NextQuiet]_vars

\* One request at a time, of every shape.
ApiRequests ==
    (IdStrings \X {"", "n1"} \X Sides) \cup {<<"d1", "n2", "Support">>}
NextApi == JoinNext(1, ApiRequests, 1) \/ Failures
SpecApi == Init /\ [][NextApi]_vars

\* ------------------------------------------------------------- leaderboard
\* Time is counted in ticks since local midnight of 1 January of year 0;
\* a day has TicksPerDay ticks and, in this model, every year 365 days.
TicksPerDay == 2
DaysInMonth == <<31, 28, 31, 30, 31, 30, 31, 31, 30, 31, 30, 31>>

RECURSIVE DaysBefore(_)
DaysBefore(m) == IF m = 0 THEN 0 ELSE DaysBefore(m - 1) + DaysInMonth[m]
DaysPerYear == DaysBefore(12)

\* Date.prototype.getFullYear / getMonth / getDate (months count from 0).
DayOfYear(t) == (t \div TicksPerDay) % DaysPerYear
GetFullYear(t) == (t \div TicksPerDay) \div DaysPerYear
GetMonth(t) ==
    CHOOSE m \in 0..11 : DaysBefore(m) <= DayOfYear(t) /\ DayOfYear(t) < DaysBefore(m + 1)
GetDate(t) == DayOfYear(t) - DaysBefore(GetMonth(t)) + 1

\* new Date(year, month, date): local midnight; a month or a date out of range
\* carries into the neighbouring year or month.
NewDate(year, month, date) ==
    ((year + (month \div 12)) * DaysPerYear + DaysBefore(month % 12) + (date - 1))
        * TicksPerDay

\* Lines 156-164; the result is the set holding startDate, empty for null.
\* "" stands for a request without the filter parameter.
StartDateHours(filterParam, now) ==
    IF filterParam = "weekly" THEN {now - 7 * TicksPerDay}
    ELSE IF filterParam = "monthly"
    THEN {NewDate(GetFullYear(now), GetMonth(now) - 1, GetDate(now))}
    ELSE {}
StartDate(filterParam, now) ==
    LET filter == IF filterParam = "" THEN "all" ELSE filterParam
    IN  IF filter = "weekly"
        THEN {NewDate(GetFullYear(now), GetMonth(now), GetDate(now) - 7)}
        ELSE IF filter = "monthly"
        THEN {NewDate(GetFullYear(now), GetMonth(now) - 1, GetDate(now))}
        ELSE {}

\* { $match: matchStage } (lines 167, 171)
Match(docs, startDate) ==
    SelectSeq(docs, LAMBDA d : \A s \in startDate : d.createdAt >= s)

RECURSIVE SumVotes(_)
SumVotes(docs) ==
    IF docs = <<>> THEN 0 ELSE Head(docs).votes + SumVotes(Tail(docs))

\* The first $group (lines 172-177): one row per (userName, debateId).
GroupPerDocument(docs) ==
    {[userName |-> docs[i].userName, debateId |-> <<docs[i].debateId, i>>,
      totalVotesPerDebate |-> docs[i].votes] : i \in 1..Len(docs)}
GroupByUserAndDebate(docs) ==
    {[userName |-> k[1], debateId |-> k[2],
      totalVotesPerDebate |->
          SumVotes(SelectSeq(docs, LAMBDA d : d.userName = k[1] /\ d.debateId = k[2]))] :
        k \in {<<docs[i].userName, docs[i].debateId>> : i \in 1..Len(docs)}}

RECURSIVE SumRows(_)
SumRows(rows) ==
    IF rows = {} THEN 0
    ELSE LET r == CHOOSE x \in rows : TRUE
         IN  r.totalVotesPerDebate + SumRows(rows \ {r})

\* The second $group (lines 178-184): one entry per userName.
GroupByUser(rows) ==
    {[id |-> u,
      totalVotes |-> SumRows({r \in rows : r.userName = u}),
      debatesParticipated |-> Cardinality({r \in rows : r.userName = u})] :
        u \in {r.userName : r \in rows}}

\* { $sort: { totalVotes: -1 } } (line 185), as an insertion sort.
PrecedesAscending(a, b) == a.totalVotes <= b.totalVotes
Precedes(a, b) == a.totalVotes >= b.totalVotes

RECURSIVE InsertSorted(_, _)
InsertSorted(e, sorted) ==
    IF sorted = <<>> THEN <<e>>
    ELSE IF Precedes(e, Head(sorted)) THEN <<e>> \o sorted
    ELSE <<Head(sorted)>> \o InsertSorted(e, Tail(sorted))

RECURSIVE SortByTotalVotes(_)
SortByTotalVotes(entries) ==
    IF entries = <<>> THEN <<>>
    ELSE InsertSorted(Head(entries), SortByTotalVotes(Tail(entries)))

\* The orders in which a $group stage can emit its groups.
Orders(set) ==
    {o \in [1..Cardinality(set) -> set] : \A e \in set : \E i \in DOMAIN o : o[i] = e}

\* The documents the leaderboard collection can hold.
UserNames == {"alice", "bob"}
DebateIds == {"A", "B"}
VoteCounts == {1, 2}
CreatedAts ==
    <<NewDate(0, 11, 29) - 1, NewDate(0, 11, 29), NewDate(1, 2, 3)>>
Nows == {NewDate(1, 0, 5) + 1, NewDate(1, 2, 31)}
Filters == {"", "all", "weekly", "monthly", "yearly"}

VoteDocs ==
    {[userName |-> u, debateId |-> d, votes |-> v, createdAt |-> CreatedAts[c]] :
        u \in UserNames, d \in DebateIds, v \in VoteCounts, c \in DOMAIN CreatedAts}

\* A total order on the documents, to list each collection once.
Rank(doc) ==
    LET c == CHOOSE i \in DOMAIN CreatedAts : CreatedAts[i] = doc.createdAt
    IN  ((((IF doc.userName = "alice" THEN 0 ELSE 1) * 2
            + (IF doc.debateId = "A" THEN 0 ELSE 1)) * 2
            + (doc.votes - 1)) * Len(CreatedAts)) + c

Collections ==
    UNION {{docs \in [1..n -> VoteDocs] :
                \A i \in 1..(n - 1) : Rank(docs[i]) <= Rank(docs[i + 1])} :
            n \in 0..MaxVotes}

LbInit ==
    /\ JoinInit
    /\ argumentsCollection \in Collections
    /\ lbRequest = NoRequest
    /\ lbResponse = NotSent

\* GET /leaderboard, the synchronous part (lines 155-170): the window is
\* computed from `new Date()` and the aggregation is sent.
LbReceive(filter, now) ==
    /\ lbRequest' = [filter |-> filter, now |-> now,
                     startDate |-> StartDate(filter, now)]
    /\ lbResponse' = NotSent
    /\ UNCHANGED <<argumentsCollection, debateCollection, joinedDebateCollection,
                   inflight, clock, response, track>>

\* The pipeline of lines 170-186.
Pipeline(docs, startDate) ==
    GroupByUser(GroupByUserAndDebate(Match(docs, startDate)))

\* The aggregation answers and the result is sent (lines 170-188).
Aggregate ==
    /\ lbRequest # NoRequest
    /\ lbResponse = NotSent
    /\ \E order \in Orders(Pipeline(argumentsCollection, lbRequest.startDate)) :
          lbResponse' = [status |-> 200, body |-> SortByTotalVotes(order)]
    /\ UNCHANGED <<lbRequest, argumentsCollection, debateCollection,
                   joinedDebateCollection, inflight, clock, response, track>>

\* The aggregation rejects: the catch answers 500 (lines 190-193).
AggregateFailure ==
    /\ lbRequest # NoRequest
    /\ lbResponse = NotSent
    /\ lbResponse' = [status |-> 500, body |-> <<>>]
    /\ UNCHANGED <<lbRequest, argumentsCollection, debateCollection,
                   joinedDebateCollection, inflight, clock, response, track>>

NextLb ==
    \/ \E filter \in Filters, now \in Nows : LbReceive(filter, now)
    \/ Aggregate
    \/ AggregateFailure
SpecLb == LbInit /\ [][NextLb]_vars

\* ------------------------------------------------------------------ claims
InFlight == BagToSet(inflight)
Clean(req) == ~track[<<ObjectId(req.id), req.name>>].dirty
HadSide(req) ==
    LET had == track[<<ObjectId(req.id), req.name>>].had
    IN  IF had = <<>> THEN "none" ELSE had[1].side
OnlyOn(side, name, debate) ==
    IF side = "Support"
    THEN name \in debate.support /\ name \notin debate.oppose
    ELSE name \in debate.oppose /\ name \notin debate.support

\* C1: in every reachable state, no participant name is in both the support
\* and the oppose set of a debate, whatever the interleaving of the joins.
C1_NeverOnBothSides ==
    \A o \in DOMAIN debateCollection :
        debateCollection[o].support \cap debateCollection[o].oppose = {}

\* C2: when a join of (D, N) that overlapped no other join of (D, N) has done
\* its three writes and answers, and the record of (D, N) held the other side
\* when it arrived, then N is on the side it asked for and not on the other.
C2_SideSwitch ==
    \A req \in InFlight :
        (/\ req.pc = "respond"
         /\ Clean(req)
         /\ HadSide(req) \in {"Support", "Oppose"} \ {req.side})
        => OnlyOn(req.side, req.name, debateCollection[ObjectId(req.id)])

C2_Witness ==
    \E req \in InFlight :
        /\ req.pc = "respond" /\ Clean(req)
        /\ HadSide(req) = "Support" /\ req.side = "Oppose"
        /\ "n2" \in debateCollection[ObjectId(req.id)].support

\* C3: the joinedDebate collection never holds two documents with the same
\* debateId and name, and when a join answers (calls being made one after the
\* other) the one document of its (debateId, name) has its side and joinedAt.
C3_OneRecordPerPair ==
    /\ \A k \in DOMAIN joinedDebateCollection : Len(joinedDebateCollection[k]) <= 1
    /\ \A req \in InFlight :
          req.pc = "respond" =>
             /\ Len(Matching(joinedDebateCollection, req.id, req.name)) = 1
             /\ Matching(joinedDebateCollection, req.id, req.name)[1] = JoinedDoc(req)

C3_Witness ==
    \E req \in InFlight :
        /\ req.pc = "respond"
        /\ track[<<ObjectId(req.id), req.name>>].had # <<>>
        /\ track[<<ObjectId(req.id), req.name>>].had[1].side = req.side
        /\ track[<<ObjectId(req.id), req.name>>].had[1].joinedAt < req.joinedAt
        /\ Matching(joinedDebateCollection, req.id, req.name) = <<JoinedDoc(req)>>

\* C4: a join whose name is empty or whose side is not exactly "Support" or
\* "Oppose" is answered 400 by the validation, whatever the id; it never
\* reaches a store operation, and the step that answers 400 leaves the
\* debates and the joinedDebate documents unchanged.
StoreSteps == {"find", "pull", "add", "upsert"}
BadInput(name, side) == name = "" \/ (side # "Support" /\ side # "Oppose")
C4_InvalidRejected ==
    /\ [](\A req \in InFlight : ~BadInput(req.name, req.side))
    /\ []((response.status # 0 /\ BadInput(response.name, response.side))
            => (response.status = 400 /\ response.step = "validate"))
    /\ [][response'.status = 400 =>
            /\ debateCollection' = debateCollection
            /\ joinedDebateCollection' = joinedDebateCollection
            /\ inflight' = inflight]_vars

C4_Witness ==
    /\ response.status = 400
    /\ response.name = "n1" /\ response.side = "support" /\ response.id = "d2"
    /\ debateCollection["o1"].oppose # {}

\* C5: a valid join whose id names no stored debate is answered 404, unless a
\* store operation failed.
StoreFailed(resp) == resp.status = 500 /\ resp.step \in StoreSteps
C5_MissingDebateIs404 ==
    (/\ response.status # 0
     /\ ~BadInput(response.name, response.side)
     /\ ObjectId(response.id) \notin DOMAIN debateCollection
     /\ ~StoreFailed(response))
    => response.status = 404

\* C9: the step in which a store operation of a join fails answers 500, takes
\* the request out of the requests in flight, and changes no document; when
\* the join overlapped no other join of the same debate and name, a failure of
\* the $addToSet leaves the name on neither side, and a failure of the upsert
\* leaves it on the chosen side only, with the joinedDebate documents of its
\* (debateId, name) as they were when the request arrived.
FailsIn(req) ==
    /\ req.pc \in StoreSteps
    /\ response' = ResponseOf(req, 500, req.pc)
    /\ BagCardinality(inflight') < BagCardinality(inflight)
    /\ CopiesIn(req, inflight') < CopiesIn(req, inflight)

KeepsWrites(req, alone) ==
    /\ inflight' = inflight (-) SetToBag({req})
    /\ debateCollection' = debateCollection
    /\ joinedDebateCollection' = joinedDebateCollection
    /\ (alone /\ req.pc = "add") =>
          /\ req.name \notin debateCollection'[ObjectId(req.id)].support
          /\ req.name \notin debateCollection'[ObjectId(req.id)].oppose
    /\ (alone /\ req.pc = "upsert") =>
          /\ OnlyOn(req.side, req.name, debateCollection'[ObjectId(req.id)])
          /\ Matching(joinedDebateCollection', req.id, req.name)
                = track[<<ObjectId(req.id), req.name>>].had

C10_RecordsAgree ==
    inflight = EmptyBag =>
        \A k \in DOMAIN joinedDebateCollection :
            \A i \in 1..Len(joinedDebateCollection[k]) :
                LET doc == joinedDebateCollection[k][i]
                IN  OnlyOn(doc.side, doc.name, debateCollection[ObjectId(doc.debateId)])

\* What the leaderboard has to hold for the documents `docs`.
RECURSIVE VotesOf(_, _)
VotesOf(u, docs) ==
    IF docs = <<>> THEN 0
    ELSE (IF Head(docs).userName = u THEN Head(docs).votes ELSE 0) + VotesOf(u, Tail(docs))
DebatesOf(u, docs) == {docs[i].debateId : i \in {j \in 1..Len(docs) : docs[j].userName = u}}
EntriesOf(u, body) == {i \in 1..Len(body) : body[i].id = u}
Ranks(body, docs) ==
    \A u \in UserNames :
        IF DebatesOf(u, docs) = {} THEN EntriesOf(u, body) = {}
        ELSE /\ Cardinality(EntriesOf(u, body)) = 1
             /\ \A i \in EntriesOf(u, body) :
                   /\ body[i].totalVotes = VotesOf(u, docs)
                   /\ body[i].debatesParticipated = Cardinality(DebatesOf(u, docs))

\* C6: with filter = all the leaderboard has one entry per user with a
\* document, holding the sum of the user's votes and the number of distinct
\* debates of the user's documents, and no entry for any other user.
C6_AllTotals ==
    (lbResponse.status = 200 /\ lbRequest.filter = "all")
        => Ranks(lbResponse.body, argumentsCollection)

C6_Witness ==
    /\ lbResponse.status = 200 /\ lbRequest.filter = "all"
    /\ Len(argumentsCollection) = 3
    /\ \A i \in 1..3 : argumentsCollection[i].userName = "alice"
    /\ Cardinality({i \in 1..3 : argumentsCollection[i].debateId = "A"}) = 2
    /\ Len(lbResponse.body) = 1
    /\ lbResponse.body[1].debatesParticipated = 2

\* C7: for every filter the entries of the leaderboard come in non-increasing
\* order of totalVotes.
C7_SortedDescending ==
    lbResponse.status = 200 =>
        \A i, j \in 1..Len(lbResponse.body) :
            i < j => lbResponse.body[i].totalVotes >= lbResponse.body[j].totalVotes

C7_Witness ==
    /\ lbResponse.status = 200 /\ lbRequest.filter = "weekly"
    /\ Len(lbResponse.body) = 2
    /\ lbResponse.body[1].id = "bob"
    /\ lbResponse.body[1].totalVotes > lbResponse.body[2].totalVotes

\* C8: with filter = weekly the leaderboard is the one of the documents
\* created at or after the start of the day seven days before the day of
\* the request.
StartOfDay(t) == (t \div TicksPerDay) * TicksPerDay
InWeek(docs, now) ==
    SelectSeq(docs, LAMBDA d : d.createdAt >= StartOfDay(now) - 7 * TicksPerDay)
C8_WeeklyWindow ==
    (lbResponse.status = 200 /\ lbRequest.filter = "weekly")
        => Ranks(lbResponse.body, InWeek(argumentsCollection, lbRequest.now))

C8_Witness ==
    /\ lbResponse.status = 200 /\ lbRequest.filter = "weekly"
    /\ \E i, j \in 1..Len(argumentsCollection) :
          /\ argumentsCollection[i].userName = "alice"
          /\ argumentsCollection[i].createdAt = StartOfDay(lbRequest.now) - 7 * TicksPerDay
          /\ argumentsCollection[j].userName = "alice"
          /\ argumentsCollection[j].createdAt < StartOfDay(lbRequest.now) - 7 * TicksPerDay
    /\ Len(lbResponse.body) = 1
    /\ lbResponse.body[1].totalVotes < VotesOf("alice", argumentsCollection)

====
